---- MODULE Spec2Model ----
(***************************************************************************)
(* Model of components/keyword-extractor.tsx: the KeywordExtractor         *)
(* component (text, keywordsCount, highlighted), its handler handleSubmit  *)
(* and the two functions extractKeywords and highlight.                    *)
(*                                                                         *)
(* A string is a sequence of characters; a character is a one-element      *)
(* name ("b", "B", "_", ...).  "KELVIN" stands for U+212A KELVIN SIGN, the  *)
(* non-ASCII character whose toLowerCase() is the ASCII letter "k".        *)
(***************************************************************************)
EXTENDS Integers, Sequences, FiniteSets, TLC

VARIABLES text, keywordsCount, highlighted, input, n, keywords, freq, out, pc

vars == <<text, keywordsCount, highlighted, input, n, keywords, freq, out, pc>>

\* ------------------------------------------------------------------ bounds
MaxLen == 3
MaxWords == 4
MaxEdit == 2
MaxHl == 4

\* ------------------------------------------------------------- characters
Lower == {"a", "b", "c", "d", "e", "f", "g", "h", "i", "j", "k", "l", "m",
          "n", "o", "p", "q", "r", "s", "t", "u", "v", "w", "x", "y", "z"}

Upper == {"A", "B", "C", "D", "E", "F", "G", "H", "I", "J", "K", "L", "M",
          "N", "O", "P", "Q", "R", "S", "T", "U", "V", "W", "X", "Y", "Z"}

Digit == {"0", "1", "2", "3", "4", "5", "6", "7", "8", "9"}

UpperOf == [c \in Lower |->
    CASE c = "a" -> "A" [] c = "b" -> "B" [] c = "c" -> "C" [] c = "d" -> "D"
      [] c = "e" -> "E" [] c = "f" -> "F" [] c = "g" -> "G" [] c = "h" -> "H"
      [] c = "i" -> "I" [] c = "j" -> "J" [] c = "k" -> "K" [] c = "l" -> "L"
      [] c = "m" -> "M" [] c = "n" -> "N" [] c = "o" -> "O" [] c = "p" -> "P"
      [] c = "q" -> "Q" [] c = "r" -> "R" [] c = "s" -> "S" [] c = "t" -> "T"
      [] c = "u" -> "U" [] c = "v" -> "V" [] c = "w" -> "W" [] c = "x" -> "X"
      [] c = "y" -> "Y" [] c = "z" -> "Z"]

\* toLowerCase left out: every character stays as typed.
keepCase(c) == c

\* String.prototype.toLowerCase on one character.
toLowerCaseChar(c) ==
    IF c \in Upper THEN CHOOSE l \in Lower : UpperOf[l] = c
    ELSE IF c = "KELVIN" THEN "k"
    ELSE c

\* The class [a-zA-Z0-9] of the split pattern.
isAlnum(c) == c \in Lower \cup Upper \cup Digit

\* The class \w that \b is defined by (no u flag): [A-Za-z0-9_].
isWordChar(c) == isAlnum(c) \/ c = "_"

\* White space removed by String.prototype.trim.
isWhiteSpace(c) == c = " "

DigitVal == [c \in Digit |->
    CASE c = "0" -> 0 [] c = "1" -> 1 [] c = "2" -> 2 [] c = "3" -> 3
      [] c = "4" -> 4 [] c = "5" -> 5 [] c = "6" -> 6 [] c = "7" -> 7
      [] c = "8" -> 8 [] c = "9" -> 9]

\* ---------------------------------------------------------- stop words
stopWords == {
    <<"t", "h", "e">>, <<"a", "n", "d">>, <<"a">>,
    <<"t", "o">>, <<"o", "f">>, <<"i", "n">>,
    <<"t", "h", "a", "t">>, <<"i", "t">>, <<"i", "s">>,
    <<"w", "a", "s">>, <<"f", "o", "r">>, <<"o", "n">>,
    <<"w", "i", "t", "h">>, <<"a", "s">>, <<"b", "y">>,
    <<"a", "t">>, <<"f", "r", "o", "m">>, <<"o", "r">>,
    <<"a", "n">>, <<"b", "e">>, <<"t", "h", "i", "s">>,
    <<"w", "h", "i", "c", "h">>, <<"b", "u", "t">>, <<"n", "o", "t">>,
    <<"a", "r", "e">>, <<"h", "a", "v", "e">>, <<"h", "a", "s">>,
    <<"h", "a", "d">>}

\* ------------------------------------------------------ extractKeywords
\* input.toLowerCase()
toLowerCase(s) == [i \in 1..Len(s) |-> toLowerCaseChar(s[i])]

\* .split(/[^a-zA-Z0-9]+/): the pieces between maximal separator runs; a
\* separator at the start or the end leaves an empty piece there, and the
\* empty string splits into one empty piece.
RECURSIVE SplitFrom(_, _, _, _, _)
SplitFrom(s, i, acc, cur, inSep) ==
    IF i > Len(s) THEN Append(acc, cur)
    ELSE IF isAlnum(s[i]) THEN SplitFrom(s, i + 1, acc, Append(cur, s[i]), FALSE)
    ELSE IF inSep THEN SplitFrom(s, i + 1, acc, cur, TRUE)
    ELSE SplitFrom(s, i + 1, Append(acc, cur), <<>>, TRUE)

split(s) == SplitFrom(s, 1, <<>>, <<>>, FALSE)

\* .filter(Boolean): the empty string is the only falsy string.
filterBoolean(ps) == SelectSeq(ps, LAMBDA p : p # <<>>)

\* const words = input.toLowerCase().split(...).filter(Boolean)
wordsOf(s) == filterBoolean(split(toLowerCase(s)))

\* The object freq is the sequence of its own properties in creation order.
\* A value is a number (num, v) or, when num is FALSE, the string
\* "function Object() { [native code] }" followed by v digits "1".
constructorKey == <<"c", "o", "n", "s", "t", "r", "u", "c", "t", "o", "r">>

hasOwn(f, w) == \E i \in 1..Len(f) : f[i].key = w

ownValue(f, w) == f[CHOOSE i \in 1..Len(f) : f[i].key = w]

\* (freq[w] || 0) + 1.  freq = {} inherits from Object.prototype, whose only
\* property named by a lowercase alphanumeric string is "constructor": there
\* freq[w] is the function Object, truthy, and function + 1 is a string.
nextValue(f, w) ==
    IF hasOwn(f, w) THEN [num |-> ownValue(f, w).num, v |-> ownValue(f, w).v + 1]
    ELSE IF w = constructorKey THEN [num |-> FALSE, v |-> 1]
    ELSE [num |-> TRUE, v |-> 1]

\* freq[w] = ...: an existing own property keeps its place.
setProperty(f, w, val) ==
    IF hasOwn(f, w)
    THEN [i \in 1..Len(f) |-> IF f[i].key = w THEN [key |-> w, num |-> val.num, v |-> val.v] ELSE f[i]]
    ELSE Append(f, [key |-> w, num |-> val.num, v |-> val.v])

\* for (const w of words) if (!stopWords.has(w)) freq[w] = (freq[w] || 0) + 1
RECURSIVE countFrom(_, _, _)
countFrom(ws, i, f) ==
    IF i > Len(ws) THEN f
    ELSE IF ws[i] \in stopWords THEN countFrom(ws, i + 1, f)
    ELSE countFrom(ws, i + 1, setProperty(f, ws[i], nextValue(f, ws[i])))

buildFreq(s) == countFrom(wordsOf(s), 1, <<>>)

\* An array index: a canonical numeric string whose value is at most 2^32 - 2.
MaxArrayIndex == <<"4", "2", "9", "4", "9", "6", "7", "2", "9", "4">>

RECURSIVE digitsLess(_, _, _)
digitsLess(a, b, i) ==
    IF i > Len(a) THEN FALSE
    ELSE IF DigitVal[a[i]] # DigitVal[b[i]] THEN DigitVal[a[i]] < DigitVal[b[i]]
    ELSE digitsLess(a, b, i + 1)

\* a < b for canonical numeric strings.
numericLess(a, b) == Len(a) < Len(b) \/ (Len(a) = Len(b) /\ digitsLess(a, b, 1))

isArrayIndex(k) ==
    /\ k # <<>>
    /\ \A i \in 1..Len(k) : k[i] \in Digit
    /\ Len(k) = 1 \/ k[1] # "0"
    /\ ~numericLess(MaxArrayIndex, k)

\* Object.entries(freq): the own keys that are array indices in ascending
\* numeric order, then the other keys in creation order.
RECURSIVE ascending(_)
ascending(es) ==
    IF es = <<>> THEN <<>>
    ELSE LET m == CHOOSE i \in 1..Len(es) :
                    \A j \in 1..Len(es) : j = i \/ numericLess(es[i].key, es[j].key)
         IN <<es[m]>> \o ascending(SubSeq(es, 1, m - 1) \o SubSeq(es, m + 1, Len(es)))

ObjectEntries(f) ==
    ascending(SelectSeq(f, LAMBDA e : isArrayIndex(e.key)))
        \o SelectSeq(f, LAMBDA e : ~isArrayIndex(e.key))

\* The comparator (a, b) => b[1] - a[1]; a string operand makes the
\* difference NaN, which sort reads as +0.
compareFn(a, b) == IF a.num /\ b.num THEN b.v - a.v ELSE 0

\* Array.prototype.sort as V8 runs it on an array shorter than 64 elements
\* (one TimSort run): CountAndMakeRun, then BinaryInsertionSort.
RECURSIVE runEnd(_, _, _)
runEnd(w, idx, desc) ==
    IF idx > Len(w) THEN idx - 1
    ELSE LET order == compareFn(w[idx], w[idx - 1])
         IN IF (desc /\ order >= 0) \/ (~desc /\ order < 0) THEN idx - 1
            ELSE runEnd(w, idx + 1, desc)

reverse(s) == [i \in 1..Len(s) |-> s[Len(s) + 1 - i]]

RECURSIVE binarySearch(_, _, _, _)
binarySearch(w, pivot, left, right) ==
    IF left < right
    THEN LET mid == left + ((right - left) \div 2)
         IN IF compareFn(pivot, w[mid + 1]) < 0
            THEN binarySearch(w, pivot, left, mid)
            ELSE binarySearch(w, pivot, mid + 1, right)
    ELSE left

RECURSIVE binaryInsertionSort(_, _)
binaryInsertionSort(w, start) ==
    IF start >= Len(w) THEN w
    ELSE LET pivot == w[start + 1]
             left == binarySearch(w, pivot, 0, start)
         IN binaryInsertionSort(
                SubSeq(w, 1, left) \o <<pivot>> \o SubSeq(w, left + 1, start)
                    \o SubSeq(w, start + 2, Len(w)),
                start + 1)

arraySort(w) ==
    IF Len(w) < 2 THEN w
    ELSE LET desc == compareFn(w[2], w[1]) < 0
             run == runEnd(w, 3, desc)
             made == IF desc THEN reverse(SubSeq(w, 1, run)) \o SubSeq(w, run + 1, Len(w))
                     ELSE w
         IN binaryInsertionSort(made, run)

\* sorted.slice(0, n): a negative end counts from the end of the array.
slice0(s, end) ==
    LET final == IF end < 0 THEN (IF Len(s) + end > 0 THEN Len(s) + end ELSE 0)
                 ELSE (IF end < Len(s) THEN end ELSE Len(s))
    IN SubSeq(s, 1, final)

extractKeywords(s, count) ==
    LET sorted == arraySort(ObjectEntries(buildFreq(s)))
    IN slice0([i \in 1..Len(sorted) |-> sorted[i].key], count)

\* ------------------------------------------------------------ highlight
\* The characters of the class [.*+?^${}()|[\]\\].
regexSpecial == {".", "*", "+", "?", "^", "$", "{", "}", "(", ")", "|", "[", "]", "\\"}

\* k.replace(/[.*+?^${}()|[\]\\]/g, "\\$&"): a backslash before each special
\* character.
RECURSIVE escapeFrom(_, _)
escapeFrom(k, i) ==
    IF i > Len(k) THEN <<>>
    ELSE (IF k[i] \in regexSpecial THEN <<"\\", k[i]>> ELSE <<k[i]>>) \o escapeFrom(k, i + 1)

escapeKeyword(k) == escapeFrom(k, 1)

\* escaped.join("|")
RECURSIVE joinBar(_, _)
joinBar(ks, i) ==
    IF i > Len(ks) THEN <<>>
    ELSE (IF i > 1 THEN <<"|">> ELSE <<>>) \o ks[i] \o joinBar(ks, i + 1)

\* The source between "\\b(" and ")\\b".
patternSource(kws) == joinBar([i \in 1..Len(kws) |-> escapeKeyword(kws[i])], 1)

\* The alternatives of the group as the RegExp constructor reads the source:
\* "|" separates alternatives, a backslash makes the next character a
\* literal, "." matches any character but a line terminator, any other
\* character is a literal.  The empty source is one empty alternative.
RECURSIVE parseFrom(_, _, _, _)
parseFrom(src, i, alts, cur) ==
    IF i > Len(src) THEN Append(alts, cur)
    ELSE IF src[i] = "\\" /\ i < Len(src)
         THEN parseFrom(src, i + 2, alts, Append(cur, [any |-> FALSE, ch |-> src[i + 1]]))
    ELSE IF src[i] = "|" THEN parseFrom(src, i + 1, Append(alts, cur), <<>>)
    ELSE IF src[i] = "." THEN parseFrom(src, i + 1, alts, Append(cur, [any |-> TRUE, ch |-> "."]))
    ELSE parseFrom(src, i + 1, alts, Append(cur, [any |-> FALSE, ch |-> src[i]]))

alternatives(kws) == parseFrom(patternSource(kws), 1, <<>>, <<>>)

\* Canonicalize of the i flag without the u flag: toUpperCase, unless that
\* maps a non-ASCII character to an ASCII one.
canonicalize(c) == IF c \in Lower THEN UpperOf[c] ELSE c

atomMatches(a, c) == IF a.any THEN c # "\n" ELSE canonicalize(a.ch) = canonicalize(c)

\* The pattern without its \b anchors: every position passes.
noWordBoundary(s, p) == TRUE

\* \b at position p (0..Len(s)): exactly one of the two neighbours is a \w.
isWordBoundary(s, p) ==
    (p > 0 /\ isWordChar(s[p])) # (p < Len(s) /\ isWordChar(s[p + 1]))

altMatchesAt(s, p, alt) ==
    /\ p + Len(alt) <= Len(s)
    /\ \A j \in 1..Len(alt) : atomMatches(alt[j], s[p + j])
    /\ isWordBoundary(s, p + Len(alt))

\* The length matched by \b(alt1|alt2|...)\b at position p, the first
\* alternative that lets the whole pattern match winning; -1 for no match.
matchAt(s, p, alts) ==
    IF isWordBoundary(s, p) /\ \E i \in 1..Len(alts) : altMatchesAt(s, p, alts[i])
    THEN Len(alts[CHOOSE i \in 1..Len(alts) :
                    /\ altMatchesAt(s, p, alts[i])
                    /\ \A j \in 1..(i - 1) : ~altMatchesAt(s, p, alts[j])])
    ELSE -1

\* The lowercased keyword substituted instead of the matched text.
replacementLowercased(m) == <<"*", "*">> \o toLowerCase(m) \o <<"*", "*">>

\* The replacement "**$1**" for the matched text m.
replacement(m) == <<"*", "*">> \o m \o <<"*", "*">>

\* input.replace(regex, "**$1**") with the g flag: each match is replaced,
\* the search resumes at its end, one character further after an empty
\* match, and unmatched characters are copied.
RECURSIVE replaceFrom(_, _, _)
replaceFrom(s, p, alts) ==
    IF p > Len(s) THEN <<>>
    ELSE LET m == matchAt(s, p, alts)
             copy == IF p < Len(s) THEN <<s[p + 1]>> ELSE <<>>
         IN IF m < 0 THEN copy \o replaceFrom(s, p + 1, alts)
            ELSE IF m = 0 THEN replacement(<<>>) \o copy \o replaceFrom(s, p + 1, alts)
            ELSE replacement(SubSeq(s, p + 1, p + m)) \o replaceFrom(s, p + m, alts)

highlight(s, kws) == replaceFrom(s, 0, alternatives(kws))

\* ---------------------------------------------------------- handleSubmit
\* text.trim(): leading and trailing white space removed.
RECURSIVE trimStart(_)
trimStart(s) == IF s # <<>> /\ isWhiteSpace(Head(s)) THEN trimStart(Tail(s)) ELSE s

RECURSIVE trimEnd(_)
trimEnd(s) ==
    IF s # <<>> /\ isWhiteSpace(s[Len(s)]) THEN trimEnd(SubSeq(s, 1, Len(s) - 1)) ELSE s

trim(s) == trimEnd(trimStart(s))

\* {highlighted && (<div> ... </div>)}: the empty string is falsy.
panelRendered == highlighted # <<>>

\* useState(5)
DefaultKeywordsCount == 5

\* ------------------------------------------------------------- inputs
Counts == {-1, 0, 2, DefaultKeywordsCount}

SeqsUpTo(S, len) == UNION {[1..k -> S] : k \in 0..len}

\* Values typed or pasted into the textarea.
EditAlphabet == {"b", " ", "."}

EditTexts == SeqsUpTo(EditAlphabet, MaxEdit)

\* Character-level texts given to extractKeywords.
CharAlphabet == {"a", "b", "B", "_", " ", ".", "KELVIN"}

CharTexts == SeqsUpTo(CharAlphabet, MaxLen)

\* Word-level texts: words of a small lexicon separated by one space.
bigNumber == <<"4", "2", "9", "4", "9", "6", "7", "2", "9", "5">>

Lexicon == {<<"b">>, <<"c">>, <<"7">>, <<"1", "0">>, constructorKey, bigNumber}

RECURSIVE joinSpace(_, _)
joinSpace(ws, i) ==
    IF i > Len(ws) THEN <<>>
    ELSE (IF i > 1 THEN <<" ">> ELSE <<>>) \o ws[i] \o joinSpace(ws, i + 1)

WordTexts == {joinSpace(ws, 1) : ws \in SeqsUpTo(Lexicon, MaxWords)}

\* "b c d constructor e f g e f g f"
LongTexts == {joinSpace(<<<<"b">>, <<"c">>, <<"d">>, constructorKey, <<"e">>, <<"f">>,
                          <<"g">>, <<"e">>, <<"f">>, <<"g">>, <<"f">>>>, 1)}

ExtractInputs == CharTexts \cup WordTexts \cup LongTexts

\* Texts and caller-supplied keyword lists given to highlight.
HighlightAlphabet == {"b", "B", "_", " ", "."}

HighlightTexts == SeqsUpTo(HighlightAlphabet, MaxHl)

KeywordChoices == {<<"b">>, <<"b", "b">>, <<"B">>, <<".">>}

KeywordLists == {<<>>} \cup {<<k>> : k \in KeywordChoices}
                    \cup {<<k1, k2>> : k1 \in KeywordChoices, k2 \in KeywordChoices}

\* ------------------------------------------------------- the component
idleCall == input = <<>> /\ n = 0 /\ keywords = <<>> /\ freq = <<>> /\ out = <<>>

Init ==
    /\ text = <<>>
    /\ keywordsCount = DefaultKeywordsCount
    /\ highlighted = <<>>
    /\ idleCall
    /\ pc = "mounted"

\* onChange={(e) => setText(e.target.value)}
setText(v) ==
    /\ text' = v
    /\ pc' = "setText"
    /\ UNCHANGED <<keywordsCount, highlighted, input, n, keywords, freq, out>>

\* onChange={(e) => setKeywordsCount(Number(e.target.value))}
setKeywordsCount(c) ==
    /\ keywordsCount' = c
    /\ pc' = "setKeywordsCount"
    /\ UNCHANGED <<text, highlighted, input, n, keywords, freq, out>>

\* handleSubmit without its check of text.trim().
handleSubmitNoTrimCheck ==
    /\ highlighted' = highlight(text, extractKeywords(text, keywordsCount))
    /\ pc' = "handleSubmit"
    /\ UNCHANGED <<text, keywordsCount, input, n, keywords, freq, out>>

handleSubmit ==
    /\ highlighted' = IF trim(text) = <<>> THEN <<>>
                      ELSE highlight(text, extractKeywords(text, keywordsCount))
    /\ pc' = "handleSubmit"
    /\ UNCHANGED <<text, keywordsCount, input, n, keywords, freq, out>>

Next ==
    \/ \E v \in EditTexts : setText(v)
    \/ \E c \in Counts : setKeywordsCount(c)
    \/ handleSubmit

Spec == Init /\ [][Next]_vars

\* ------------------------------------------- the functions on their own
shellAtRest == text = <<>> /\ keywordsCount = DefaultKeywordsCount /\ highlighted = <<>>

\* extractKeywords(input, n), then highlight(input, kws) as handleSubmit
\* chains them.
InitExtract ==
    /\ shellAtRest
    /\ input \in ExtractInputs
    /\ n \in Counts
    /\ keywords = <<>>
    /\ freq = <<>>
    /\ out = <<>>
    /\ pc = "call"

callExtractKeywords ==
    /\ pc = "call"
    /\ freq' = buildFreq(input)
    /\ keywords' = extractKeywords(input, n)
    /\ pc' = "extracted"
    /\ UNCHANGED <<text, keywordsCount, highlighted, input, n, out>>

callHighlight ==
    /\ pc \in {"extracted", "given"}
    /\ out' = highlight(input, keywords)
    /\ pc' = "highlighted"
    /\ UNCHANGED <<text, keywordsCount, highlighted, input, n, keywords, freq>>

NextExtract == callExtractKeywords \/ callHighlight

SpecExtract == InitExtract /\ [][NextExtract]_vars

\* highlight(input, keywords) on any keyword list.
InitHighlight ==
    /\ shellAtRest
    /\ input \in HighlightTexts
    /\ n = 0
    /\ keywords \in KeywordLists
    /\ freq = <<>>
    /\ out = <<>>
    /\ pc = "given"

NextHighlight == callHighlight

SpecHighlight == InitHighlight /\ [][NextHighlight]_vars

\* ------------------------------------------------ vocabulary of the claims
\* ASCII case folding, used to compare "ignoring case".
foldChar(c) == IF c \in Upper THEN CHOOSE l \in Lower : UpperOf[l] = c ELSE c

foldCase(s) == [i \in 1..Len(s) |-> foldChar(s[i])]

\* The token occurrences of s: its maximal runs of ASCII letters/digits, as
\* pairs <<first, last>> of positions.
tokenSpans(s) ==
    {sp \in (1..Len(s)) \X (1..Len(s)) :
        /\ sp[1] <= sp[2]
        /\ \A k \in sp[1]..sp[2] : s[k] \in Lower \cup Upper \cup Digit
        /\ sp[1] = 1 \/ s[sp[1] - 1] \notin Lower \cup Upper \cup Digit
        /\ sp[2] = Len(s) \/ s[sp[2] + 1] \notin Lower \cup Upper \cup Digit}

\* The tokens of the lowercased text and the number of times each occurs.
tokensOf(s) ==
    LET low == [i \in 1..Len(s) |-> IF s[i] = "KELVIN" THEN "k" ELSE foldChar(s[i])]
    IN {SubSeq(low, sp[1], sp[2]) : sp \in tokenSpans(low)}

occurrences(tok, s) ==
    LET low == [i \in 1..Len(s) |-> IF s[i] = "KELVIN" THEN "k" ELSE foldChar(s[i])]
    IN Cardinality({sp \in tokenSpans(low) : SubSeq(low, sp[1], sp[2]) = tok})

inSeq(seq, x) == \E i \in 1..Len(seq) : seq[i] = x

\* The marker pairs of an output, read back from the output alone: each
\* "**" opens or closes a pair, and a pair is recorded as the positions
\* <<first, last>> of the input characters it encloses (last = first - 1 for
\* a pair that encloses nothing).  No input alphabet contains "*".
RECURSIVE pairsFrom(_, _, _, _, _, _)
pairsFrom(o, i, pos, open, start, acc) ==
    IF i > Len(o) THEN acc
    ELSE IF i < Len(o) /\ o[i] = "*" /\ o[i + 1] = "*"
         THEN IF open THEN pairsFrom(o, i + 2, pos, FALSE, 0, Append(acc, <<start + 1, pos>>))
              ELSE pairsFrom(o, i + 2, pos, TRUE, pos, acc)
    ELSE pairsFrom(o, i + 1, pos + 1, open, start, acc)

markerPairs(o) == pairsFrom(o, 1, 0, FALSE, 0, <<>>)

stars(o) == Len(SelectSeq(o, LAMBDA c : c = "*"))

withoutMarkers(o) == SelectSeq(o, LAMBDA c : c # "*")

\* ---------------------------------------------------------------- C1
\* C1: highlight(text, []) returns text exactly: with an empty keyword list
\* nothing is inserted.
C1_EmptyListUnchanged ==
    (pc = "highlighted" /\ keywords = <<>>) => out = input

\* ---------------------------------------------------------------- C2
\* C2: extractKeywords(text, n) returns at most max(n, 0) tokens, so none
\* for n <= 0.
C2_AtMostMaxN0 ==
    pc = "extracted" => Len(keywords) <= (IF n > 0 THEN n ELSE 0)

\* ---------------------------------------------------------------- C3
\* C3: every token occurrence of the text (maximal run of ASCII
\* letters/digits) that equals a selected keyword ignoring case is wrapped in
\* a ** pair of highlight's output.
C3_EveryOccurrenceWrapped ==
    (pc = "highlighted" /\ Len(keywords) > 0) =>
        \A sp \in tokenSpans(input) :
            inSeq(keywords, foldCase(SubSeq(input, sp[1], sp[2]))) =>
                inSeq(markerPairs(out), sp)

\* ---------------------------------------------------------------- C4
\* C4: with a non-empty keyword list, each substring highlight wraps equals
\* one of the keywords ignoring case and is not part of a longer run of ASCII
\* letters/digits.
C4_OnlyWholeWords ==
    (pc = "highlighted" /\ keywords # <<>>) =>
        \A i \in 1..Len(markerPairs(out)) :
            LET a == markerPairs(out)[i][1]
                b == markerPairs(out)[i][2]
            IN /\ a <= b /\ b <= Len(input)
               /\ \E k \in 1..Len(keywords) :
                      foldCase(SubSeq(input, a, b)) = foldCase(keywords[k])
               /\ ~(a > 1 /\ isAlnum(input[a - 1]) /\ isAlnum(input[a]))
               /\ ~(b < Len(input) /\ isAlnum(input[b]) /\ isAlnum(input[b + 1]))

\* A keyword was wrapped as a whole word, and the same text holds it inside
\* a longer run, where it was left alone.
C4_Witness ==
    /\ pc = "highlighted"
    /\ input = <<"b", ".", "b", "B">>
    /\ keywords = <<<<"b">>, <<"b", "b">>>>
    /\ out = <<"*", "*", "b", "*", "*", ".", "*", "*", "b", "B", "*", "*">>

\* ---------------------------------------------------------------- C5
\* C5: if token A occurs strictly more often in the text than token B and
\* both are returned by extractKeywords, A precedes B in the list.
C5_FrequencyOrder ==
    pc = "extracted" =>
        \A i \in 1..Len(keywords) : \A j \in 1..Len(keywords) :
            occurrences(keywords[i], input) > occurrences(keywords[j], input) => i < j

\* ---------------------------------------------------------------- C6
\* C6: highlight changes the text only by inserting ** marker pairs: without
\* the markers the output is the input character for character, so what a
\* pair encloses is the matched substring in its original casing.
C6_OnlyMarkersInserted ==
    pc = "highlighted" =>
        /\ withoutMarkers(out) = input
        /\ stars(out) = 4 * Len(markerPairs(out))
        /\ \A i \in 1..Len(markerPairs(out)) :
               markerPairs(out)[i][2] <= Len(input)

\* An uppercase occurrence was wrapped under a lowercase keyword.
C6_Witness ==
    /\ pc = "highlighted"
    /\ keywords = <<<<"b">>>>
    /\ input = <<"B", " ", "b">>
    /\ out = <<"*", "*", "B", "*", "*", " ", "*", "*", "b", "*", "*">>

\* ---------------------------------------------------------------- C7
\* C7: every element of extractKeywords(text, n) is a non-empty string of
\* lowercase ASCII letters/digits outside the stop-word set, and no token
\* appears twice.
C7_KeywordsWellFormed ==
    pc = "extracted" =>
        /\ \A i \in 1..Len(keywords) :
               /\ keywords[i] # <<>>
               /\ \A j \in 1..Len(keywords[i]) : keywords[i][j] \in Lower \cup Digit
               /\ keywords[i] \notin stopWords
        /\ \A i \in 1..Len(keywords) : \A j \in 1..Len(keywords) :
               keywords[i] = keywords[j] => i = j

\* Two keywords came out of a text holding an uppercase letter.
C7_Witness ==
    /\ pc = "extracted"
    /\ Len(keywords) = 2
    /\ \E i \in 1..Len(input) : input[i] \in Upper

\* ---------------------------------------------------------------- C8
\* C8: a submission with empty or whitespace-only text sets highlighted to
\* the empty string (no result panel); any other submission sets it to
\* highlight(text, extractKeywords(text, keywordsCount)) of the text and count
\* current at the submission; text and count edits never change highlighted.
C8_SubmitStep ==
    /\ pc' = "handleSubmit" =>
          /\ text' = text /\ keywordsCount' = keywordsCount
          /\ (\A i \in 1..Len(text) : text[i] = " ") =>
                 (highlighted' = <<>> /\ ~panelRendered')
          /\ (\E i \in 1..Len(text) : text[i] # " ") =>
                 highlighted' = highlight(text, extractKeywords(text, keywordsCount))
    /\ pc' # "handleSubmit" => highlighted' = highlighted

\* C8: every step of the component is a submission that stores the result
\* described above (the empty string for blank text) or an edit that leaves
\* highlighted as it was.
C8_ShellSteps == [][C8_SubmitStep]_vars

\* A result is on display for a text that was edited after the submission.
C8_Witness ==
    /\ pc = "setText"
    /\ panelRendered
    /\ text = <<" ">>

\* ---------------------------------------------------------------- C9
\* C9: the frequency map has exactly the non-stop-word tokens of the
\* lowercased text as keys and maps each to its number of occurrences, a
\* positive integer, also for a token such as "constructor".
C9_FrequencyMap ==
    pc = "extracted" =>
        /\ {freq[i].key : i \in 1..Len(freq)} = tokensOf(input) \ stopWords
        /\ \A i \in 1..Len(freq) :
               freq[i].num /\ freq[i].v = occurrences(freq[i].key, input)

\* ---------------------------------------------------------------- C10
\* C10: among tokens with equal counts the returned order is: canonical
\* non-negative integer strings first, in ascending numeric order, then all
\* other tokens in order of first occurrence in the text; truncation keeps
\* the earliest tokens of that order among a tie.
isCanonicalInteger(k) ==
    /\ k # <<>>
    /\ \A i \in 1..Len(k) : k[i] \in Digit
    /\ Len(k) = 1 \/ k[1] # "0"

firstOccurrence(tok, s) ==
    LET low == [i \in 1..Len(s) |-> IF s[i] = "KELVIN" THEN "k" ELSE foldChar(s[i])]
    IN CHOOSE p \in 1..Len(s) :
          /\ \E sp \in tokenSpans(low) : sp[1] = p /\ SubSeq(low, sp[1], sp[2]) = tok
          /\ \A sp \in tokenSpans(low) : SubSeq(low, sp[1], sp[2]) = tok => sp[1] >= p

\* a comes before b in the claimed enumeration.
claimedBefore(a, b, s) ==
    IF isCanonicalInteger(a) /\ isCanonicalInteger(b)
    THEN Len(a) < Len(b) \/ (Len(a) = Len(b) /\ digitsLess(a, b, 1))
    ELSE IF isCanonicalInteger(a) THEN TRUE
    ELSE IF isCanonicalInteger(b) THEN FALSE
    ELSE firstOccurrence(a, s) < firstOccurrence(b, s)

\* C10: two returned tokens with equal counts stand in the claimed
\* enumeration order, and a token is returned only together with every token
\* of the same count that the claimed order puts before it.
C10_TieOrder ==
    pc = "extracted" =>
        /\ \A i \in 1..Len(keywords) : \A j \in 1..Len(keywords) :
               (/\ occurrences(keywords[i], input) = occurrences(keywords[j], input)
                /\ claimedBefore(keywords[i], keywords[j], input)) => i < j
        /\ \A j \in 1..Len(keywords) : \A t \in tokensOf(input) \ stopWords :
               (/\ occurrences(t, input) = occurrences(keywords[j], input)
                /\ claimedBefore(t, keywords[j], input)) => inSeq(keywords, t)

====
